---- MODULE Spec2Model ----
(***************************************************************************)
(* A model of the two rule engines of thousandroads-companion:            *)
(*   - awards/forms.py: the nomination formset (BaseNominationFormSet,    *)
(*     NominationForm, SerebiiObjectField) and the voting form            *)
(*     (VotingForm);                                                       *)
(*   - reviewblitz/views.py: review submission                            *)
(*     (BlitzReviewSubmissionFormView.form_valid) and the approval queue  *)
(*     (BlitzReviewApprovalQueueView.post).                               *)
(* Each engine has its own specification; SpecAwards runs the nomination  *)
(* formset and the voting form together over the same tables.             *)
(***************************************************************************)
EXTENDS Integers, Sequences, FiniteSets, Bags, TLC

VARIABLES
    objects,        \* Member and Fic rows saved in the database
    nominations,    \* award -> the member's stored nominations, in pk order
    forms,          \* the forms of the last posted nomination formset
    outcome,        \* what clean() and save() of that formset produced
    nominated,      \* the Nomination rows of the year, of all members (voting)
    votes,          \* the Vote rows of the year: a bag of [member, award, nomination]
    ballot,         \* the voting form of the request being answered
    blitz,          \* the current ReviewBlitz: its themed week and the reviews posted
    chapters,       \* review -> review.chapters (0: never submitted)
    blitzreviews,   \* review -> its BlitzReview row with its chapter links, or NoRow
    next_id,        \* the id the next BlitzReview row gets
    blitz_users,    \* members with a BlitzUser row
    ledger,         \* chapter bonuses granted while only first submissions were made
    last            \* the review-blitz request being answered

vars == <<objects, nominations, forms, outcome, nominated, votes, ballot,
          blitz, chapters, blitzreviews, next_id, blitz_users, ledger, last>>
nomination_vars == <<objects, nominations, forms, outcome>>
voting_vars == <<nominated, votes, ballot>>
blitz_vars == <<blitz, chapters, blitzreviews, next_id, blitz_users, ledger, last>>

None == "None"

\* No voting form is being answered.
NoBallot == [member |-> None]


(***************************************************************************)
(* Nominations: awards/forms.py                                            *)
(***************************************************************************)

\* settings consumed by BaseNominationFormSet.clean
MAX_FIC_NOMINATIONS == 2
MAX_PERSON_NOMINATIONS == 3
MIN_DIFFERENT_NOMINATIONS == 2

\* NominationForm slots per award (range(2) in BaseNominationFormSet.__init__)
SLOTS_PER_AWARD == 2

\* The members and fics that can be entered in a nomination.
Persons == {"p1", "p2"}
Fics == {"f1", "f2"}

\* BlitzReview(blitz=blitz, review=review) before it is saved: no id (0) and
\* the fields' defaults.  It also stands for "no row of this review".
NoRow == [id |-> 0, heat_bonus |-> 0, theme |-> FALSE, score |-> 0,
          approved |-> FALSE, chapter_links |-> {}]
NoRequest == [op |-> "none"]
Reviews == {"r1", "r2"}
\* The review-blitz variables before any blitz request.
BlitzIdle ==
    /\ chapters = [r \in Reviews |-> 0]
    /\ blitzreviews = [r \in Reviews |-> NoRow]
    /\ next_id = 1
    /\ blitz_users = {}
    /\ ledger = [plain |-> TRUE, bonuses |-> [f \in Fics |-> 0]]
    /\ last = NoRequest
NoBlitz == [none |-> TRUE]


\* fic.authors.all(), in queryset order
fic_authors(fic) == IF fic = "f1" THEN <<"p1">> ELSE <<"p1", "p2">>

\* YearAward.objects.from_year(year), in queryset order, with the award flags
YearAwards == <<"author", "scene", "collab">>
has_person(award) == award \in {"author", "collab"}
has_fic(award) == award \in {"scene", "collab"}
has_detail(award) == award = "scene"
has_samples(award) == award = "collab"

\* self.fields of a NominationForm after __init__ removed what the award
\* lacks: of Meta.fields, the comment is kept for every award.
form_fields(award) ==
    {f \in {"nominee"} : has_person(award)} \cup {f \in {"fic"} : has_fic(award)}
        \cup {f \in {"detail"} : has_detail(award)}
        \cup {f \in {"link"} : has_samples(award)}
        \cup {"comment"}

\* The posted data of a slot whose fields are all blank.
EmptyData == [nominee |-> None, fic |-> None, detail |-> "", link |-> "",
              comment |-> ""]

\* What a member may post in a slot of an award: blank, or values for fields
\* the award has, with or without a comment, or a comment alone. The link
\* "bad" is one that fails the link field's validation.
SlotChoices(award) ==
    {EmptyData} \cup
    CASE award = "author" ->
            {[EmptyData EXCEPT !.nominee = "p1"],
             [EmptyData EXCEPT !.nominee = "p1", !.comment = "c"],
             [EmptyData EXCEPT !.comment = "c"]}
      [] award = "scene" ->
            {[EmptyData EXCEPT !.fic = "f1", !.detail = d] : d \in {"", "x"}}
                \cup {[EmptyData EXCEPT !.fic = "f2"]}
      [] award = "collab" ->
            {[EmptyData EXCEPT !.nominee = "p2", !.fic = "f1"],
             [EmptyData EXCEPT !.nominee = "p1", !.fic = "f1", !.link = "bad"]}

\* BaseNominationFormSet.__init__ / _construct_form: two forms per year award,
\* form i of an award bound to the member's i-th stored nomination of that
\* award (by pk) when there is one, and to a blank Nomination (pk None) when
\* there is none.
FormCount == Len(YearAwards) * SLOTS_PER_AWARD
AwardOfForm(k) == YearAwards[((k - 1) \div SLOTS_PER_AWARD) + 1]
SlotOfForm(k) == ((k - 1) % SLOTS_PER_AWARD) + 1

ConstructForms(stored, posted) ==
    [k \in 1..FormCount |->
        [award |-> AwardOfForm(k),
         instance |-> IF SlotOfForm(k) <= Len(stored[AwardOfForm(k)])
                      THEN stored[AwardOfForm(k)][SlotOfForm(k)]
                      ELSE EmptyData,
         pk |-> SlotOfForm(k) <= Len(stored[AwardOfForm(k)]),
         data |-> posted[k]]]

\* NominationForm.is_empty
is_empty(form) == \A f \in form_fields(form.award) : form.data[f] \in {None, ""}

\* form.has_changed(): the posted data differs from the form's initial data
has_changed(form) == \E f \in form_fields(form.award) : form.data[f] # form.instance[f]

\* Nomination.clean, run by _post_clean for a form that is not empty: the
\* member or fic the award asks for has to be there.
model_clean(form) ==
    /\ has_person(form.award) => form.data.nominee # None
    /\ has_fic(form.award) => form.data.fic # None

\* form.is_valid() before the formset's clean: an unchanged form is not
\* cleaned at all (empty_permitted), a changed one must pass its fields and,
\* unless it is empty, the model's cleaning.
is_valid(form) ==
    \/ ~has_changed(form)
    \/ /\ form.data.link # "bad"
       /\ is_empty(form) \/ model_clean(form)

\* form.cleaned_data[field]: an unchanged form has no cleaned data
KeyError == "KeyError"
cleaned_data(form, field) == IF has_changed(form) THEN form.data[field] ELSE KeyError

\* cleaned_data[field] if has_changed() else getattr(instance, field)
FieldValue(form, field) ==
    IF has_changed(form) THEN cleaned_data(form, field) ELSE form.instance[field]

\* NominationForm.is_distinct_from
distinguishing_fields(form) == {"nominee", "fic", "detail"} \cap form_fields(form.award)

\* is_distinct_from gone wrong: distinct only when every field differs.
is_distinct_from_every_field(self, form) ==
    \A field \in distinguishing_fields(self) :
        FieldValue(self, field) # FieldValue(form, field)

is_distinct_from(self, form) ==
    \E field \in distinguishing_fields(self) :
        FieldValue(self, field) # FieldValue(form, field)

\* A defaultdict(int) as Python keeps it: <<key, count>> in insertion order.
DictIncr(dict, key) ==
    IF \E i \in 1..Len(dict) : dict[i][1] = key
    THEN [i \in 1..Len(dict) |->
            IF dict[i][1] = key THEN <<key, dict[i][2] + 1>> ELSE dict[i]]
    ELSE Append(dict, <<key, 1>>)

RECURSIVE DictIncrAll(_, _)
DictIncrAll(dict, keys) ==
    IF keys = <<>> THEN dict ELSE DictIncrAll(DictIncr(dict, Head(keys)), Tail(keys))

DictGet(dict, key) ==
    IF \E i \in 1..Len(dict) : dict[i][1] = key
    THEN dict[CHOOSE i \in 1..Len(dict) : dict[i][1] = key][2]
    ELSE 0

\* The first item of the dict whose count is above cap, or <<>>.
FirstOver(dict, cap) ==
    IF \E i \in 1..Len(dict) : dict[i][2] > cap
    THEN dict[CHOOSE i \in 1..Len(dict) :
                /\ dict[i][2] > cap
                /\ \A j \in 1..(i - 1) : dict[j][2] <= cap]
    ELSE <<>>

\* The loop of BaseNominationFormSet.clean over self.forms.
CleanStart ==
    [fic_nominations |-> <<>>, person_nominations |-> <<>>,
     award_dict |-> [a \in {} |-> <<>>], duplicate |-> {}]

\* The loop body gone wrong: the nominee of an award that also has a fic is
\* not counted (an elif in place of the second if).
CleanForm_elif(fs, k, acc) ==
    LET form == fs[k]
        fic == FieldValue(form, "fic")
        ficd == IF "fic" \in form_fields(form.award)
                THEN DictIncr(acc.fic_nominations, fic) ELSE acc.fic_nominations
        pers == IF "fic" \in form_fields(form.award)
                THEN DictIncrAll(acc.person_nominations, fic_authors(fic))
                ELSE IF "nominee" \in form_fields(form.award)
                THEN DictIncr(acc.person_nominations, FieldValue(form, "nominee"))
                ELSE acc.person_nominations
        others == IF form.award \in DOMAIN acc.award_dict
                  THEN acc.award_dict[form.award] ELSE <<>>
        dup == \E j \in 1..Len(others) : ~is_distinct_from(form, fs[others[j]])
    IN  IF ~is_empty(form) /\ is_valid(form)
        THEN [fic_nominations |-> ficd,
              person_nominations |-> pers,
              award_dict |-> [a \in DOMAIN acc.award_dict \cup {form.award} |->
                                IF a = form.award THEN Append(others, k)
                                ELSE acc.award_dict[a]],
              duplicate |-> IF dup THEN acc.duplicate \cup {k} ELSE acc.duplicate]
        ELSE acc

CleanForm(fs, k, acc) ==
    LET form == fs[k]
        fic == FieldValue(form, "fic")
        ficd == IF "fic" \in form_fields(form.award)
                THEN DictIncr(acc.fic_nominations, fic) ELSE acc.fic_nominations
        pers1 == IF "fic" \in form_fields(form.award)
                 THEN DictIncrAll(acc.person_nominations, fic_authors(fic))
                 ELSE acc.person_nominations
        pers2 == IF "nominee" \in form_fields(form.award)
                 THEN DictIncr(pers1, FieldValue(form, "nominee")) ELSE pers1
        others == IF form.award \in DOMAIN acc.award_dict
                  THEN acc.award_dict[form.award] ELSE <<>>
        dup == \E j \in 1..Len(others) : ~is_distinct_from(form, fs[others[j]])
    IN  IF ~is_empty(form) /\ is_valid(form)
        THEN [fic_nominations |-> ficd,
              person_nominations |-> pers2,
              award_dict |-> [a \in DOMAIN acc.award_dict \cup {form.award} |->
                                IF a = form.award THEN Append(others, k)
                                ELSE acc.award_dict[a]],
              duplicate |-> IF dup THEN acc.duplicate \cup {k} ELSE acc.duplicate]
        ELSE acc

RECURSIVE CleanLoop(_, _, _)
CleanLoop(fs, k, acc) ==
    IF k > Len(fs) THEN acc ELSE CleanLoop(fs, k + 1, CleanForm(fs, k, acc))

\* The ValidationError clean raises after the loop, if any.
NoError == [code |-> "none"]
Raises(acc, fic, person, few) ==
    IF fic # <<>>
    THEN [code |-> "fic_cap", who |-> fic[1], nominations |-> fic[2],
          max_nominations |-> MAX_FIC_NOMINATIONS]
    ELSE IF person # <<>>
    THEN [code |-> "person_cap", who |-> person[1], nominations |-> person[2],
          max_nominations |-> MAX_PERSON_NOMINATIONS]
    ELSE IF few
    THEN [code |-> "diversity", min |-> MIN_DIFFERENT_NOMINATIONS]
    ELSE NoError

\* clean gone wrong: a fic exactly at the cap is refused (>= for >).
CleanRaises_at_cap(acc) ==
    Raises(acc, FirstOver(acc.fic_nominations, MAX_FIC_NOMINATIONS - 1),
           FirstOver(acc.person_nominations, MAX_PERSON_NOMINATIONS),
           Len(acc.person_nominations) < MIN_DIFFERENT_NOMINATIONS)

\* clean gone wrong: exactly the minimum of different people is refused (<= for <).
CleanRaises_at_min(acc) ==
    Raises(acc, FirstOver(acc.fic_nominations, MAX_FIC_NOMINATIONS),
           FirstOver(acc.person_nominations, MAX_PERSON_NOMINATIONS),
           Len(acc.person_nominations) <= MIN_DIFFERENT_NOMINATIONS)

CleanRaises(acc) ==
    Raises(acc, FirstOver(acc.fic_nominations, MAX_FIC_NOMINATIONS),
           FirstOver(acc.person_nominations, MAX_PERSON_NOMINATIONS),
           Len(acc.person_nominations) < MIN_DIFFERENT_NOMINATIONS)

\* SerebiiObjectField.clean: every member or fic cleaned out of a changed
\* form is saved while the form is being cleaned.
CleanedObjects_valid(fs) ==
    {fs[k].data[f] : k \in {j \in 1..Len(fs) : has_changed(fs[j]) /\ is_valid(fs[j])},
                     f \in {"nominee", "fic"}} \ {None}
CleanedObjects(fs) ==
    {fs[k].data[f] : k \in {j \in 1..Len(fs) : has_changed(fs[j])},
                     f \in {"nominee", "fic"}} \ {None}

\* NominationForm.save for the forms of one award, as the stored list it leaves.
Kept(form) ==
    IF ~form.pk THEN <<>>
    ELSE IF ~has_changed(form) THEN <<form.instance>>
    ELSE IF is_empty(form) THEN <<>>
    ELSE <<form.data>>
Created(form) ==
    IF ~form.pk /\ has_changed(form) /\ ~is_empty(form)
    THEN <<form.data>> ELSE <<>>

RECURSIVE SaveAward(_, _, _, _)
SaveAward(fs, award, k, pass) ==
    IF k > Len(fs) THEN <<>>
    ELSE (IF fs[k].award # award THEN <<>>
          ELSE IF pass = "kept" THEN Kept(fs[k]) ELSE Created(fs[k]))
         \o SaveAward(fs, award, k + 1, pass)

\* BaseNominationFormSet.save: [form.save() for form in self.forms if form.has_changed()]
\* What NominationForm.save returns for an empty form: None.
ReturnedNone == [is_none |-> TRUE]
RECURSIVE SaveReturns(_, _)
SaveReturns(fs, k) ==
    IF k > Len(fs) THEN <<>>
    ELSE (IF ~has_changed(fs[k]) THEN <<>>
          ELSE IF is_empty(fs[k]) THEN <<ReturnedNone>>
          ELSE <<[is_none |-> FALSE, award |-> fs[k].award, nomination |-> fs[k].data]>>)
         \o SaveReturns(fs, k + 1)

\* The formset's is_valid(): every form valid, none marked by clean, and no
\* error raised by clean.
FormsetValid(fs, acc) ==
    /\ \A k \in 1..Len(fs) : is_valid(fs[k])
    /\ acc.duplicate = {}
    /\ CleanRaises(acc) = NoError

NoOutcome ==
    [fic_nominations |-> <<>>, person_nominations |-> <<>>, duplicate |-> {},
     non_form_error |-> NoError, valid |-> FALSE, returned |-> <<>>]

\* The batches a member can post: one choice per form.
RECURSIVE BatchesUpTo(_)
BatchesUpTo(k) ==
    IF k = 0 THEN {<<>>}
    ELSE {Append(b, d) : b \in BatchesUpTo(k - 1), d \in SlotChoices(AwardOfForm(k))}
Batches == BatchesUpTo(FormCount)

\* The Nomination rows of the member as the voting form reads them: a row is
\* named by its award and its place among the member's nominations of that
\* award, in pk order.
OwnRows == [author |-> <<"author1", "author2">>,
            scene |-> <<"scene1", "scene2">>,
            collab |-> <<"collab1", "collab2">>]
OwnIds == {OwnRows[a][i] : a \in DOMAIN OwnRows, i \in 1..SLOTS_PER_AWARD}
own_award(n) == CHOOSE a \in DOMAIN OwnRows : \E i \in 1..SLOTS_PER_AWARD : OwnRows[a][i] = n
own_slot(n) == CHOOSE i \in 1..SLOTS_PER_AWARD : OwnRows[own_award(n)][i] = n
RowsOf(stored) == UNION {{OwnRows[a][i] : i \in 1..Len(stored[a])} : a \in DOMAIN stored}

\* The form of a slot of an award, and what becomes of the row it is bound
\* to when the formset is saved: kept (updated or untouched) at its place
\* among the kept rows of the award, or deleted.
FormOf(award, slot) ==
    (CHOOSE i \in 1..Len(YearAwards) : YearAwards[i] = award) * SLOTS_PER_AWARD
        - SLOTS_PER_AWARD + slot
RowAfter(fs, n) ==
    IF n \notin OwnIds THEN n
    ELSE IF Kept(fs[FormOf(own_award(n), own_slot(n))]) = <<>> THEN None
    ELSE OwnRows[own_award(n)]
            [Cardinality({j \in 1..own_slot(n) : Kept(fs[FormOf(own_award(n), j)]) # <<>>})]

\* instance.delete() in NominationForm.save: the Vote rows of a deleted
\* nomination go with it; the other votes stay with their nomination.
VotesAfter(fs, bag) ==
    LET live == {v \in DOMAIN bag : RowAfter(fs, v.nomination) # None}
        moved(v) == [v EXCEPT !.nomination = RowAfter(fs, v.nomination)]
    IN  [w \in {moved(v) : v \in live} |-> bag[CHOOSE v \in live : moved(v) = w]]

\* One POST of the nomination formset by the member: the forms are built,
\* cleaned (which saves the members and fics named), and saved when valid.
\* Requests are answered one at a time.
PostNominations(posted) ==
    /\ forms = <<>>
    /\ ballot = NoBallot
    /\ LET fs == ConstructForms(nominations, posted)
           acc == CleanLoop(fs, 1, CleanStart)
           ok == FormsetValid(fs, acc)
           saved == [a \in DOMAIN nominations |->
                        SaveAward(fs, a, 1, "kept") \o SaveAward(fs, a, 1, "created")]
       IN  /\ forms' = fs
           /\ objects' = objects \cup CleanedObjects(fs)
           /\ outcome' = [fic_nominations |-> acc.fic_nominations,
                          person_nominations |-> acc.person_nominations,
                          duplicate |-> acc.duplicate,
                          non_form_error |-> CleanRaises(acc),
                          valid |-> ok,
                          returned |-> IF ok THEN SaveReturns(fs, 1) ELSE <<>>]
           /\ nominations' = IF ok THEN saved ELSE nominations
           /\ nominated' = IF ok THEN (nominated \ OwnIds) \cup RowsOf(saved)
                           ELSE nominated
           /\ votes' = IF ok THEN VotesAfter(fs, votes) ELSE votes
    /\ UNCHANGED ballot
    /\ UNCHANGED blitz_vars

SubmitNominations == \E posted \in Batches : PostNominations(posted)

InitNominations ==
    /\ objects = {}
    /\ nominations = [a \in {YearAwards[i] : i \in 1..Len(YearAwards)} |-> <<>>]
    /\ forms = <<>>
    /\ outcome = NoOutcome
    /\ nominated = {}
    /\ votes = EmptyBag
    /\ ballot = NoBallot
    /\ blitz = NoBlitz
    /\ BlitzIdle

\* The response is sent: the formset of the request is discarded.
NominationsDone ==
    /\ forms # <<>>
    /\ forms' = <<>>
    /\ outcome' = NoOutcome
    /\ UNCHANGED <<objects, nominations>>
    /\ UNCHANGED voting_vars
    /\ UNCHANGED blitz_vars

NextNominations == SubmitNominations \/ NominationsDone

SpecNominations == InitNominations /\ [][NextNominations]_vars

(***************************************************************************)
(* Voting: awards/forms.py, VotingForm                                     *)
(***************************************************************************)

\* The members who vote.
Voters == {"m1", "m2"}

\* The nominations other members can have made in the year, and the award
\* of a nomination, theirs or the member's.
NominationIds == {"n1", "n2", "n3", "n4"}
award_of(nomination) ==
    CASE nomination \in {"n1", "n2"} -> "author"
      [] nomination = "n3" -> "scene"
      [] nomination = "n4" -> "collab"
      [] nomination \in OwnIds -> own_award(nomination)

\* The sets of nominations the year may hold when voting opens.
Nominated == {{}, {"n1", "n2"}, {"n1", "n2", "n3"}, NominationIds}

AwardSet == {YearAwards[i] : i \in 1..Len(YearAwards)}

\* year_award.get_nominations()
get_nominations(award, pool) == {n \in pool : award_of(n) = award}

\* VotingForm.__init__: a field for each year award that has nominations
VotingFields(pool) == {a \in AwardSet : get_nominations(a, pool) # {}}

\* The ModelChoiceField of an award cleaning a posted choice: blank is None
\* (required=False), a nomination of the field's queryset is itself, and
\* anything else is an invalid choice, which leaves no cleaned value.
InvalidChoice == "InvalidChoice"
FieldClean(award, pool, raw) ==
    IF raw = None THEN None
    ELSE IF raw \in get_nominations(award, pool) THEN raw
    ELSE InvalidChoice

\* Vote.clean: a vote whose nomination is of another award is invalid
VoteClean(award, nomination) == award_of(nomination) = award

\* VotingForm.clean gone wrong: half the fields rounded down.
threshold_fails_floor(nvotes, nfields) == nvotes < nfields \div 2

\* VotingForm.clean: len(votes) * 2 < len(self.fields)
threshold_fails(nvotes, nfields) == nvotes * 2 < nfields

\* The form after full_clean: cleaned_data, the errors of the fields and
\* whether clean raised.
CleanBallot(member, pool, raw) ==
    LET fields == VotingFields(pool)
        field_cleaned == [a \in fields |-> FieldClean(a, pool, raw[a])]
        \* cleaned_data.get(field) as clean() sees it
        seen == [a \in fields |->
                    IF field_cleaned[a] = InvalidChoice THEN None ELSE field_cleaned[a]]
        voted == {a \in fields : seen[a] # None}
        refused == {a \in voted : ~VoteClean(a, seen[a])}
        field_errors == {a \in fields : field_cleaned[a] = InvalidChoice} \cup refused
        raised == threshold_fails(Cardinality(voted), Cardinality(fields))
    IN  [member |-> member,
         raw |-> raw,
         \* add_error removes the field from cleaned_data
         cleaned_data |-> [a \in fields |-> IF a \in refused THEN None ELSE seen[a]],
         field_errors |-> field_errors,
         threshold_error |-> raised,
         valid |-> field_errors = {} /\ ~raised]

\* The Vote rows of a member for an award.
VoteRows(bag, member, award) ==
    {v \in BagToSet(bag) : v.member = member /\ v.award = award}
VoteCount(bag, member, award) ==
    LET rows == VoteRows(bag, member, award)
        RECURSIVE Sum(_)
        Sum(S) == IF S = {} THEN 0
                  ELSE LET v == CHOOSE x \in S : TRUE
                       IN CopiesIn(v, bag) + Sum(S \ {v})
    IN  Sum(rows)

\* cleaned_data.get('award_%s' % award_id) in VotingForm.save
CleanedVote(cleaned, award) == IF award \in DOMAIN cleaned THEN cleaned[award] ELSE None

\* One pass of the loop of VotingForm.save: get the member's vote for the
\* award or make one, set its nomination, save it.
SaveOne(bag, member, award, vote) ==
    IF vote = None THEN bag
    ELSE IF VoteCount(bag, member, award) = 0
    THEN bag (+) SetToBag({[member |-> member, award |-> award, nomination |-> vote]})
    ELSE LET old == CHOOSE v \in VoteRows(bag, member, award) : TRUE
         IN (bag (-) SetToBag({old}))
                (+) SetToBag({[member |-> member, award |-> award, nomination |-> vote]})

\* The loop gone wrong: a Vote is made without looking for an existing one.
SaveOne_always_create(bag, member, award, vote) ==
    IF vote = None THEN bag
    ELSE bag (+) SetToBag({[member |-> member, award |-> award, nomination |-> vote]})

\* The loop gone wrong: a blank choice removes the member's vote for the award.
SaveOne_blank_deletes(bag, member, award, vote) ==
    IF vote = None
    THEN [v \in (DOMAIN bag) \ VoteRows(bag, member, award) |-> bag[v]]
    ELSE SaveOne(bag, member, award, vote)

\* The loop gone wrong: the Vote is filed under year_award.pk, the pk of the
\* YearAward row, which is the pk of another award.
SaveOne_year_award_pk(bag, member, award, vote) ==
    LET i == CHOOSE j \in 1..Len(YearAwards) : YearAwards[j] = award
    IN  SaveOne(bag, member, YearAwards[(i % Len(YearAwards)) + 1], vote)

SaveVote(bag, member, award, vote) == SaveOne(bag, member, award, vote)

\* VotingForm.save: the loop over the year awards. Vote.objects.get raises
\* when the member has several votes for the award, which ends the request
\* with what was saved so far.
RECURSIVE SaveVotes(_, _, _, _)
SaveVotes(bag, member, cleaned, i) ==
    IF i > Len(YearAwards) THEN bag
    ELSE IF /\ CleanedVote(cleaned, YearAwards[i]) # None
            /\ VoteCount(bag, member, YearAwards[i]) > 1
    THEN bag
    ELSE SaveVotes(SaveVote(bag, member, YearAwards[i], CleanedVote(cleaned, YearAwards[i])),
                   member, cleaned, i + 1)

\* Upper bound on Vote rows (one per voter and award is what the form keeps).
MaxVotes == 7

\* What a client can post for the fields of the form: for each, nothing or
\* the pk of any nomination of the year.
Ballots(pool) == [VotingFields(pool) -> pool \cup {None}]

\* One POST of the voting form by a member: cleaned, and saved when valid.
SubmitVotes ==
    \E member \in Voters : \E raw \in Ballots(nominated) :
        /\ ballot = NoBallot
        /\ forms = <<>>
        /\ BagCardinality(votes) < MaxVotes
        /\ LET form == CleanBallot(member, nominated, raw)
           IN  /\ ballot' = form
               /\ votes' = IF form.valid
                           THEN SaveVotes(votes, member, form.cleaned_data, 1)
                           ELSE votes
        /\ UNCHANGED nominated
        /\ UNCHANGED nomination_vars
        /\ UNCHANGED blitz_vars

\* The response is sent: the form of the request is discarded.
VotingDone ==
    /\ ballot # NoBallot
    /\ ballot' = NoBallot
    /\ UNCHANGED <<nominated, votes>>
    /\ UNCHANGED nomination_vars
    /\ UNCHANGED blitz_vars

InitVoting ==
    /\ objects = {}
    /\ nominations = [a \in AwardSet |-> <<>>]
    /\ forms = <<>>
    /\ outcome = NoOutcome
    /\ nominated \in Nominated
    /\ votes = EmptyBag
    /\ ballot = NoBallot
    /\ blitz = NoBlitz
    /\ BlitzIdle

NextVoting == SubmitVotes \/ VotingDone

SpecVoting == InitVoting /\ [][NextVoting]_vars

(***************************************************************************)
(* The awards of one year: nomination and voting requests in any order.   *)
(***************************************************************************)

\* The batches posted when the voting form is answered too: the slots of
\* SlotChoices that have no detail and no comment.
AwardsSlotChoices(award) ==
    {d \in SlotChoices(award) : d.detail = "" /\ d.comment = ""}
RECURSIVE AwardsBatchesUpTo(_)
AwardsBatchesUpTo(k) ==
    IF k = 0 THEN {<<>>}
    ELSE {Append(b, d) : b \in AwardsBatchesUpTo(k - 1),
                         d \in AwardsSlotChoices(AwardOfForm(k))}
AwardsBatches == AwardsBatchesUpTo(FormCount)

SubmitAwardsNominations == \E posted \in AwardsBatches : PostNominations(posted)

NextAwards ==
    \/ SubmitAwardsNominations
    \/ NominationsDone
    \/ SubmitVotes
    \/ VotingDone

SpecAwards == InitNominations /\ [][NextAwards]_vars

(***************************************************************************)
(* Review blitz: reviewblitz/views.py                                      *)
(***************************************************************************)
MaxChapters == 2
MaxId == 3

\* blitz.scoring, the BlitzScoring row of the current blitz.
Scoring(heat_bonus_multiplier) ==
    [chapter_points |-> 10,
     words_per_chapter |-> 2000,
     consecutive_chapter_interval |-> 2,
     consecutive_chapter_bonus |-> 3,
     theme_bonus |-> 20,
     long_chapter_bonus_words |-> 5000,
     long_chapter_bonus |-> 1,
     heat_bonus_multiplier |-> heat_bonus_multiplier]

\* WeeklyTheme rows (migration 0008): how often the theme bonus can be
\* claimed and whether the consecutive chapter bonus applies with it.
WeeklyTheme(claimable, consecutive_chapter_bonus_applies) ==
    [claimable |-> claimable,
     consecutive_chapter_bonus_applies |-> consecutive_chapter_bonus_applies]
NoTheme == WeeklyTheme("none", TRUE)

\* The blitzes the model runs in.  Week 1 of a blitz has no theme, week 2
\* has the blitz's theme (ReviewBlitzTheme); the two reviews are by the same
\* author, posted in the given weeks on the given fics.
Blitz(theme, week1, week2, fic2, heat_bonus_multiplier) ==
    [theme |-> theme,
     week |-> [r \in Reviews |-> IF r = "r1" THEN week1 ELSE week2],
     fic |-> [r \in Reviews |-> IF r = "r1" THEN "f1" ELSE fic2],
     scoring |-> Scoring(heat_bonus_multiplier)]
Blitzes ==
    { Blitz(WeeklyTheme("per_author", FALSE), 1, 2, "f1", 1),
      Blitz(WeeklyTheme("per_fic", TRUE), 2, 2, "f1", 1),
      Blitz(WeeklyTheme("per_chapter", TRUE), 1, 2, "f2", 0),
      Blitz(WeeklyTheme("per_review", TRUE), 2, 1, "f1", 0) }

review_author(review) == "p1"
review_fic(review) == blitz.fic[review]
review_word_count(review) == IF review = "r1" THEN 4000 ELSE 2000

\* The chapters a submission can link, and Chapter.word_count.
Chapters == {"c1", "c2"}
word_count(chapter) == IF chapter = "c1" THEN 1000 ELSE 5000
LinkChoices == {{}, Chapters}
\* What BlitzReview.calculate_heat_bonus() can return when it is called.
HeatBonuses == {0, 4}

Min(a, b) == IF a <= b THEN a ELSE b

\* BlitzReview.get_theme(): the theme of the week the review was posted in.
get_theme(review) == IF blitz.week[review] = 2 THEN blitz.theme ELSE NoTheme
has_theme(weekly_theme) == weekly_theme.claimable # "none"

\* BlitzReview.effective_chapters_reviewed(): the number of chapters or the
\* increments of the blitz's words per chapter, whichever is smaller.
effective_chapters_reviewed(chs, review) ==
    Min(chs[review], review_word_count(review) \div blitz.scoring.words_per_chapter)

\* BlitzReview.objects.filter(blitz, review__author, review__fic), narrowed
\* to id__lt when the submitted row already has an id.
prev_reviews_of(rows, review, row) ==
    {r \in Reviews : /\ rows[r].id # 0
                     /\ review_author(r) = review_author(review)
                     /\ review_fic(r) = review_fic(review)
                     /\ (row.id # 0 => rows[r].id < row.id)}

\* prev_chapters_reviewed: the loop over prev_reviews.
RECURSIVE prev_chapters_sum(_, _)
prev_chapters_sum(chs, prev_reviews) ==
    IF prev_reviews = {} THEN 0
    ELSE LET r == CHOOSE x \in prev_reviews : TRUE
         IN effective_chapters_reviewed(chs, r)
              + prev_chapters_sum(chs, prev_reviews \ {r})

\* The consecutive chapter intervals ticked over by this review.
chapter_bonuses_ceil(effective, prev, interval) ==
    (effective + prev + interval - 1) \div interval - prev \div interval
chapter_bonuses_at(effective, prev, interval) ==
    (effective + prev) \div interval - prev \div interval
chapter_bonuses(effective, prev) ==
    chapter_bonuses_at(effective, prev, blitz.scoring.consecutive_chapter_interval)
consecutive_applies_themed(weekly_theme) ==
    has_theme(weekly_theme) /\ weekly_theme.consecutive_chapter_bonus_applies
consecutive_applies(weekly_theme) ==
    ~has_theme(weekly_theme) \/ weekly_theme.consecutive_chapter_bonus_applies

\* WeeklyTheme.claimable_theme_bonuses(claim, blitzreview, prev_reviews).
claimable_theme_bonuses(weekly_theme, claim, chs, rows, review, prev_reviews) ==
    IF ~claim THEN 0
    ELSE IF weekly_theme.claimable = "per_chapter"
         THEN effective_chapters_reviewed(chs, review)
    ELSE IF weekly_theme.claimable = "per_review" THEN 1
    ELSE IF \E r \in prev_reviews : rows[r].theme THEN 0 ELSE 1

\* The chapters of the submission that earn the long chapter bonus.
long_chapters_over(chapter_links) ==
    {c \in chapter_links : word_count(c) > blitz.scoring.long_chapter_bonus_words}
long_chapters_of(chapter_links) ==
    {c \in chapter_links : word_count(c) >= blitz.scoring.long_chapter_bonus_words}

\* The heat bonus of the row after the submission.
heat_bonus_recalculated(row, calculated) ==
    IF blitz.scoring.heat_bonus_multiplier # 0 THEN calculated ELSE row.heat_bonus
heat_bonus_of(row, calculated) ==
    IF blitz.scoring.heat_bonus_multiplier # 0 /\ row.id = 0
    THEN calculated ELSE row.heat_bonus

\* BlitzReviewSubmissionFormView.form_valid: the row of the review after the
\* submission and the values computed on the way.
FormValid(review, n, satisfies_theme, chapter_links, calculated) ==
    LET chs == [chapters EXCEPT ![review] = n]
        blitzreview == blitzreviews[review]
        weekly_theme == get_theme(review)
        prev_reviews == prev_reviews_of(blitzreviews, review, blitzreview)
        prev_chapters_reviewed == prev_chapters_sum(chs, prev_reviews)
        effective == effective_chapters_reviewed(chs, review)
        base == effective * blitz.scoring.chapter_points
        bonuses == chapter_bonuses(effective, prev_chapters_reviewed)
        applies == consecutive_applies(weekly_theme)
        streak == IF applies THEN bonuses * blitz.scoring.consecutive_chapter_bonus
                  ELSE 0
        theme_bonuses_applied ==
            IF has_theme(weekly_theme)
            THEN claimable_theme_bonuses(weekly_theme, satisfies_theme, chs,
                                         blitzreviews, review, prev_reviews)
            ELSE 0
        long_chapters == long_chapters_of(chapter_links)
        heat_bonus == heat_bonus_of(blitzreview, calculated)
        score == base + streak
                 + blitz.scoring.theme_bonus * theme_bonuses_applied
                 + blitz.scoring.long_chapter_bonus * Cardinality(long_chapters)
                 + (IF blitz.scoring.heat_bonus_multiplier # 0 THEN heat_bonus ELSE 0)
    IN [chapters |-> chs,
        row |-> [id |-> IF blitzreview.id = 0 THEN next_id ELSE blitzreview.id,
                 heat_bonus |-> heat_bonus,
                 theme |-> satisfies_theme /\ theme_bonuses_applied > 0,
                 score |-> score,
                 approved |-> FALSE,
                 chapter_links |-> long_chapters],
        request |-> [op |-> "submit",
                     review |-> review,
                     created |-> blitzreview.id = 0,
                     before |-> [approved |-> blitzreview.approved,
                                 chapter_links |-> blitzreview.chapter_links],
                     satisfies_theme |-> satisfies_theme,
                     chapter_links |-> chapter_links,
                     calculated |-> calculated,
                     prev_chapters_reviewed |-> prev_chapters_reviewed,
                     effective_chapters_reviewed |-> effective,
                     applies |-> applies,
                     chapter_bonuses |-> IF applies THEN bonuses ELSE 0,
                     theme_bonuses_applied |-> theme_bonuses_applied],
        ledger |-> IF ledger.plain /\ blitzreview.id = 0 /\ applies
                   THEN [ledger EXCEPT !.bonuses[review_fic(review)] = @ + bonuses]
                   ELSE [plain |-> FALSE, bonuses |-> [f \in Fics |-> 0]]]

SubmitReview ==
    /\ last = NoRequest
    /\ \E review \in Reviews, n \in 1..MaxChapters, satisfies_theme \in BOOLEAN,
          chapter_links \in LinkChoices, calculated \in HeatBonuses :
        /\ blitzreviews[review].id = 0 => next_id <= MaxId
        /\ LET done == FormValid(review, n, satisfies_theme, chapter_links, calculated)
           IN /\ chapters' = done.chapters
              /\ blitzreviews' = [blitzreviews EXCEPT ![review] = done.row]
              /\ next_id' = IF blitzreviews[review].id = 0 THEN next_id + 1 ELSE next_id
              /\ blitz_users' = blitz_users \cup {review_author(review)}
              /\ ledger' = done.ledger
              /\ last' = done.request
    /\ UNCHANGED blitz
    /\ UNCHANGED nomination_vars
    /\ UNCHANGED voting_vars

\* BlitzReviewApprovalQueueView.post with "valid": the approved row.
theme_bonus_diff(weekly_theme, review) ==
    (claimable_theme_bonuses(weekly_theme, TRUE, chapters, blitzreviews, review, {})
       - claimable_theme_bonuses(weekly_theme, FALSE, chapters, blitzreviews, review, {}))
      * blitz.scoring.theme_bonus
Approved_keeps_score(review, set_theme_bonus) ==
    LET blitz_review_obj == blitzreviews[review]
        weekly_theme == get_theme(review)
        diff == theme_bonus_diff(weekly_theme, review)
    IN IF ~has_theme(weekly_theme)
       THEN [blitz_review_obj EXCEPT !.approved = TRUE]
       ELSE IF set_theme_bonus /\ ~blitz_review_obj.theme
       THEN [blitz_review_obj EXCEPT !.approved = TRUE, !.score = @ + diff,
                                     !.theme = TRUE]
       ELSE IF blitz_review_obj.theme /\ ~set_theme_bonus
       THEN [blitz_review_obj EXCEPT !.approved = TRUE, !.theme = FALSE]
       ELSE [blitz_review_obj EXCEPT !.approved = TRUE]
Approved(review, set_theme_bonus) ==
    LET blitz_review_obj == blitzreviews[review]
        weekly_theme == get_theme(review)
        diff == theme_bonus_diff(weekly_theme, review)
    IN IF ~has_theme(weekly_theme)
       THEN [blitz_review_obj EXCEPT !.approved = TRUE]
       ELSE IF set_theme_bonus /\ ~blitz_review_obj.theme
       THEN [blitz_review_obj EXCEPT !.approved = TRUE, !.score = @ + diff,
                                     !.theme = TRUE]
       ELSE IF blitz_review_obj.theme /\ ~set_theme_bonus
       THEN [blitz_review_obj EXCEPT !.approved = TRUE, !.score = @ - diff,
                                     !.theme = FALSE]
       ELSE [blitz_review_obj EXCEPT !.approved = TRUE]

ApproveReview ==
    /\ last = NoRequest
    /\ \E review \in Reviews, set_theme_bonus \in BOOLEAN :
        /\ blitzreviews[review].id # 0
        /\ blitzreviews' = [blitzreviews EXCEPT ![review] = Approved(review, set_theme_bonus)]
        /\ last' = [op |-> "approve", review |-> review,
                    set_theme_bonus |-> set_theme_bonus,
                    before |-> blitzreviews[review]]
    /\ UNCHANGED <<blitz, chapters, next_id, blitz_users, ledger>>
    /\ UNCHANGED nomination_vars
    /\ UNCHANGED voting_vars

\* BlitzReviewApprovalQueueView.post without "valid": the row and, with it,
\* its chapter links are deleted.
Deleted_unapproved(rows, review) == [rows EXCEPT ![review].approved = FALSE]
Deleted(rows, review) == [rows EXCEPT ![review] = NoRow]

\* BlitzReview.objects.get(id=...), BlitzReview.objects.get(blitz, review) and
\* the approval queue's get_queryset(): the reviews whose rows are found.
get_by_id(rows, id) == {r \in Reviews : rows[r].id # 0 /\ rows[r].id = id}
get_by_review(rows, review) == {r \in Reviews : rows[r].id # 0 /\ r = review}
get_queryset(rows) == {r \in Reviews : rows[r].id # 0 /\ ~rows[r].approved}

RejectReview ==
    /\ last = NoRequest
    /\ \E review \in Reviews :
        /\ get_by_id(blitzreviews, blitzreviews[review].id) # {}
        /\ blitzreviews' = Deleted(blitzreviews, review)
        /\ last' = [op |-> "reject", review |-> review,
                    before |-> blitzreviews[review]]
    /\ ledger' = [plain |-> FALSE, bonuses |-> [f \in Fics |-> 0]]
    /\ UNCHANGED <<blitz, chapters, next_id, blitz_users>>
    /\ UNCHANGED nomination_vars
    /\ UNCHANGED voting_vars

\* BlitzUserView.get_context_data: the page of a logged-in member, which
\* gets or creates the member's BlitzUser and otherwise only reads.
ViewBlitzUser ==
    /\ last = NoRequest
    /\ \E member \in Persons : blitz_users' = blitz_users \cup {member}
    /\ UNCHANGED <<blitz, chapters, blitzreviews, next_id, ledger, last>>
    /\ UNCHANGED nomination_vars
    /\ UNCHANGED voting_vars

\* BlitzView.get_context_data for the current blitz: for a visitor who is
\* logged in as a member it gets or creates the BlitzUser, for any other
\* visitor (None) it only reads.
ViewBlitz ==
    /\ last = NoRequest
    /\ \E member \in Persons \cup {None} :
          blitz_users' = IF member # None THEN blitz_users \cup {member} ELSE blitz_users
    /\ UNCHANGED <<blitz, chapters, blitzreviews, next_id, ledger, last>>
    /\ UNCHANGED nomination_vars
    /\ UNCHANGED voting_vars

\* The response has been sent.
BlitzDone ==
    /\ last # NoRequest
    /\ last' = NoRequest
    /\ UNCHANGED <<blitz, chapters, blitzreviews, next_id, blitz_users, ledger>>
    /\ UNCHANGED nomination_vars
    /\ UNCHANGED voting_vars

InitBlitz ==
    /\ objects = {}
    /\ nominations = [a \in {YearAwards[i] : i \in 1..Len(YearAwards)} |-> <<>>]
    /\ forms = <<>>
    /\ outcome = NoOutcome
    /\ nominated = {}
    /\ votes = EmptyBag
    /\ ballot = NoBallot
    /\ blitz \in Blitzes
    /\ BlitzIdle

NextBlitz ==
    \/ SubmitReview
    \/ ApproveReview
    \/ RejectReview
    \/ ViewBlitzUser
    \/ ViewBlitz
    \/ BlitzDone

SpecBlitz == InitBlitz /\ [][NextBlitz]_vars

(***************************************************************************)
(* Properties of the nomination formset, stated over the formset of the    *)
(* request being answered (forms, outcome). The counts below are taken     *)
(* from the posted slots themselves, not from the dicts clean() builds.    *)
(***************************************************************************)
InRequest == forms # <<>>
FormIds == 1..Len(forms)

\* A slot is unchanged when what was posted is what its stored nomination holds.
SlotUnchanged(k) == \A g \in form_fields(forms[k].award) : forms[k].data[g] = forms[k].instance[g]
\* The value a slot names: the stored one for an unchanged slot, else the posted one.
SlotNames(k, f) == IF SlotUnchanged(k) THEN forms[k].instance[f] ELSE forms[k].data[f]
SlotEmpty(k) == \A g \in form_fields(forms[k].award) : forms[k].data[g] \in {None, ""}
SlotComplete(k) ==
    /\ has_person(forms[k].award) => forms[k].data.nominee # None
    /\ has_fic(forms[k].award) => forms[k].data.fic # None
SlotValid(k) ==
    SlotUnchanged(k) \/ (forms[k].data.link # "bad" /\ (SlotEmpty(k) \/ SlotComplete(k)))
Counted(k) == ~SlotEmpty(k) /\ SlotValid(k)

SameNomination(i, j) ==
    /\ forms[i].award = forms[j].award
    /\ \A f \in {"nominee", "fic", "detail"} \cap form_fields(forms[i].award) :
            SlotNames(i, f) = SlotNames(j, f)
RepeatsEarlier(j) == \E i \in 1..(j - 1) : Counted(i) /\ Counted(j) /\ SameNomination(i, j)

FicSlots(fic, S) == {k \in S : "fic" \in form_fields(forms[k].award) /\ SlotNames(k, "fic") = fic}
NomineeSlots(p, S) == {k \in S : "nominee" \in form_fields(forms[k].award) /\ SlotNames(k, "nominee") = p}
AuthorSlots(p, S) ==
    {k \in S : /\ "fic" \in form_fields(forms[k].award)
               /\ SlotNames(k, "fic") \in Fics
               /\ \E n \in 1..Len(fic_authors(SlotNames(k, "fic"))) :
                        fic_authors(SlotNames(k, "fic"))[n] = p}
CountedSlots == {k \in FormIds : Counted(k)}
NonEmptySlots == {k \in FormIds : ~SlotEmpty(k)}
FicCount(fic, S) == Cardinality(FicSlots(fic, S))
PersonCount(p, S) == Cardinality(NomineeSlots(p, S)) + Cardinality(AuthorSlots(p, S))
People(S) == {p \in Persons : PersonCount(p, S) > 0}
FirstSlot(S) == CHOOSE k \in S : \A j \in S : k <= j

FicCapBroken(S) == \E f \in Fics : FicCount(f, S) > MAX_FIC_NOMINATIONS
PersonCapBroken(S) == \E p \in Persons : PersonCount(p, S) > MAX_PERSON_NOMINATIONS
AllSlotsValid == \A k \in FormIds : SlotValid(k)
NoRepeat == \A j \in FormIds : ~RepeatsEarlier(j)

\* C1: a counted (non-empty, valid) slot carries the duplicate-nomination
\* error exactly when an earlier counted slot of the same award names the
\* same nominee, fic and detail (those the award has); a batch with such a
\* slot is not valid.
C1_DuplicateFlagged ==
    InRequest =>
        /\ \A j \in FormIds : (j \in outcome.duplicate) <=> RepeatsEarlier(j)
        /\ (outcome.duplicate # {}) => ~outcome.valid

\* C1 witness: a changed slot repeats the stored, unchanged nomination of the
\* slot before it and is flagged.
C1_Witness ==
    /\ InRequest
    /\ \E j \in outcome.duplicate : \E i \in 1..(j - 1) :
            /\ forms[i].pk /\ SlotUnchanged(i) /\ ~SlotUnchanged(j)
            /\ SameNomination(i, j)

\* C2 as stated: a fic named by more non-empty slots than the cap makes clean
\* raise the per-fic error naming that fic.
C2_AsStated ==
    InRequest =>
        \A f \in Fics :
            FicCount(f, NonEmptySlots) > MAX_FIC_NOMINATIONS =>
                /\ outcome.non_form_error.code = "fic_cap"
                /\ outcome.non_form_error.who = f

\* C2 amended: counting the non-empty slots that are individually valid, a fic
\* above the cap makes clean raise the per-fic error, which names the first
\* such fic in slot order, its count and the cap; with every fic at or under
\* the cap and no other rule broken the batch is valid.
C2_FicCap ==
    InRequest =>
        /\ FicCapBroken(CountedSlots) =>
                /\ ~outcome.valid
                /\ outcome.non_form_error.code = "fic_cap"
                /\ outcome.non_form_error.max_nominations = MAX_FIC_NOMINATIONS
                /\ outcome.non_form_error.nominations =
                        FicCount(outcome.non_form_error.who, CountedSlots)
                /\ outcome.non_form_error.nominations > MAX_FIC_NOMINATIONS
                /\ \A g \in Fics :
                        FicCount(g, CountedSlots) > MAX_FIC_NOMINATIONS =>
                            FirstSlot(FicSlots(outcome.non_form_error.who, CountedSlots))
                                <= FirstSlot(FicSlots(g, CountedSlots))
        /\ ~FicCapBroken(CountedSlots) => outcome.non_form_error.code # "fic_cap"
        /\ ( /\ ~FicCapBroken(CountedSlots)
             /\ ~PersonCapBroken(CountedSlots)
             /\ Cardinality(People(CountedSlots)) >= MIN_DIFFERENT_NOMINATIONS
             /\ AllSlotsValid /\ NoRepeat ) => outcome.valid

\* C2 witness: a fic is named once more than the cap and the per-fic error is raised.
C2_Witness ==
    /\ InRequest
    /\ \E f \in Fics : FicCount(f, CountedSlots) = MAX_FIC_NOMINATIONS + 1
    /\ outcome.non_form_error.code = "fic_cap"

\* C3 as stated: clean's count of a person is the number of non-empty slots
\* naming the person plus the number of non-empty slots nominating a fic of
\* theirs.
C3_AsStated ==
    InRequest =>
        \A p \in Persons :
            DictGet(outcome.person_nominations, p) = PersonCount(p, NonEmptySlots)

\* C3 amended: clean's count of a person is the number of non-empty, valid
\* slots naming the person plus the number of those nominating a fic of
\* theirs; unless the per-fic error was raised first, the per-person error is
\* raised exactly when some person's count is above the cap.
C3_PersonCap ==
    InRequest =>
        /\ \A p \in Persons :
                DictGet(outcome.person_nominations, p) = PersonCount(p, CountedSlots)
        /\ outcome.non_form_error.code # "fic_cap" =>
                ((outcome.non_form_error.code = "person_cap")
                    <=> PersonCapBroken(CountedSlots))
        /\ outcome.non_form_error.code = "person_cap" =>
                /\ ~outcome.valid
                /\ PersonCount(outcome.non_form_error.who, CountedSlots)
                        > MAX_PERSON_NOMINATIONS
                /\ outcome.non_form_error.max_nominations = MAX_PERSON_NOMINATIONS

\* C3 witness: the per-person error is raised for a person counted both as a
\* nominee and as the author of a nominated fic.
C3_Witness ==
    /\ InRequest
    /\ outcome.non_form_error.code = "person_cap"
    /\ NomineeSlots(outcome.non_form_error.who, CountedSlots) # {}
    /\ AuthorSlots(outcome.non_form_error.who, CountedSlots) # {}

\* C4 as stated: fewer distinct people than the minimum makes clean raise the
\* diversity error.
C4_AsStated ==
    InRequest =>
        (Cardinality(People(NonEmptySlots)) < MIN_DIFFERENT_NOMINATIONS
            => outcome.non_form_error.code = "diversity")

\* C4 amended: with fewer distinct people (nominees and authors of nominated
\* fics, over the non-empty valid slots) than the minimum the batch is not
\* valid, with the diversity error unless a cap error was raised first (an
\* all-empty batch gets the diversity error); with exactly the minimum, no cap
\* or duplicate rule broken and every slot individually valid, it is valid.
C4_Diversity ==
    InRequest =>
        /\ Cardinality(People(CountedSlots)) < MIN_DIFFERENT_NOMINATIONS =>
                /\ ~outcome.valid
                /\ outcome.non_form_error.code \in {"fic_cap", "person_cap", "diversity"}
                /\ (~FicCapBroken(CountedSlots) /\ ~PersonCapBroken(CountedSlots))
                        => outcome.non_form_error.code = "diversity"
        /\ NonEmptySlots = {} => outcome.non_form_error.code = "diversity"
        /\ outcome.non_form_error.code = "diversity" =>
                Cardinality(People(CountedSlots)) < MIN_DIFFERENT_NOMINATIONS
        /\ ( /\ Cardinality(People(CountedSlots)) = MIN_DIFFERENT_NOMINATIONS
             /\ ~FicCapBroken(CountedSlots) /\ ~PersonCapBroken(CountedSlots)
             /\ NoRepeat /\ AllSlotsValid ) => outcome.valid

\* C4 witness: a batch that names one person only is refused with the diversity error.
C4_Witness ==
    /\ InRequest
    /\ Cardinality(People(CountedSlots)) = MIN_DIFFERENT_NOMINATIONS - 1
    /\ outcome.non_form_error.code = "diversity"

(***************************************************************************)
(* Properties of the voting form, stated over the form of the request      *)
(* being answered (ballot) and the Vote rows.                              *)
(***************************************************************************)
InBallot == ballot # NoBallot
Offered == {a \in AwardSet : \E n \in nominated : award_of(n) = a}
Blank(a) == a \notin DOMAIN ballot.raw \/ ballot.raw[a] = None
RawVotes == {a \in AwardSet : ~Blank(a)}
ProperVotes == {a \in RawVotes : ballot.raw[a] \in nominated /\ award_of(ballot.raw[a]) = a}
Untampered == RawVotes = ProperVotes

\* C5: the form offers a field exactly for the awards that have nominations;
\* clean raises the threshold error exactly when twice the number of choices
\* that passed their field is below the number of fields; and a submission
\* whose choices are all nominations of their own award is accepted exactly
\* when 2 * choices >= fields: at least (n + 1) / 2 choices for odd n, n / 2
\* for even n, and an empty submission passes when no field is offered.
C5_HalfOfFields ==
    InBallot =>
        LET n == Cardinality(Offered)
            v == Cardinality(RawVotes)
        IN  /\ DOMAIN ballot.raw = Offered
            /\ ballot.threshold_error <=> (2 * Cardinality(ProperVotes) < n)
            /\ Untampered =>
                /\ ballot.valid <=> (2 * v >= n)
                /\ (n % 2 = 1) => (ballot.valid <=> (v >= (n + 1) \div 2))
                /\ (n % 2 = 0) => (ballot.valid <=> (v >= n \div 2))
            /\ (n = 0) => ballot.valid

\* C5 witness: three fields offered, two choices made, accepted.
C5_Witness ==
    /\ InBallot
    /\ Cardinality(Offered) = 3 /\ Cardinality(RawVotes) = 2
    /\ Untampered /\ ballot.valid

\* C6: there is never more than one Vote of a member for an award of the
\* year, and saving the mapping just saved once more leaves the Vote rows as
\* they are.
C6_OneVotePerAward ==
    /\ \A m \in Voters, a \in AwardSet : VoteCount(votes, m, a) <= 1
    /\ (InBallot /\ ballot.valid) =>
            SaveVotes(votes, ballot.member, ballot.cleaned_data, 1) = votes

\* C6 witness: a ballot was saved when both voters hold a vote in every award.
C6_Witness ==
    /\ InBallot /\ ballot.valid
    /\ RawVotes # {}
    /\ \A m \in Voters, a \in AwardSet : VoteCount(votes, m, a) = 1

\* C7: every stored Vote points to a nomination of the Vote's own award, and
\* a ballot that places a nomination under another award gets an error on
\* that field and is not valid.
C7_VoteOfOwnAward ==
    /\ \A v \in BagToSet(votes) : award_of(v.nomination) = v.award
    /\ InBallot =>
            \A a \in RawVotes :
                award_of(ballot.raw[a]) # a =>
                    (a \in ballot.field_errors /\ ~ballot.valid)

\* C7 witness: a ballot with a nomination of another award was refused while
\* votes are stored.
C7_Witness ==
    /\ InBallot
    /\ \E a \in RawVotes : award_of(ballot.raw[a]) # a
    /\ ~ballot.valid
    /\ votes # EmptyBag

\* C8: a request leaves the member's Vote rows of every award whose choice
\* is blank as they were: none removed, changed or added.
C8_BlankKeepsVote ==
    [][(ballot' # NoBallot) =>
            \A a \in AwardSet :
                (a \notin DOMAIN ballot'.raw \/ ballot'.raw[a] = None) =>
                    /\ VoteRows(votes', ballot'.member, a) = VoteRows(votes, ballot'.member, a)
                    /\ VoteCount(votes', ballot'.member, a) = VoteCount(votes, ballot'.member, a)]_vars

\* C8 witness: a valid ballot with a choice for one award and a blank for
\* another, for which the member holds a vote.
C8_Witness ==
    /\ InBallot /\ ballot.valid
    /\ RawVotes # {}
    /\ \E a \in AwardSet : Blank(a) /\ VoteCount(votes, ballot.member, a) = 1

(***************************************************************************)
(* Properties of the review blitz, stated over the BlitzReview rows and    *)
(* the request being answered (last).                                      *)
(***************************************************************************)
Submitted == last.op = "submit"
SameKey(r, review) ==
    review_author(r) = review_author(review) /\ review_fic(r) = review_fic(review)
\* The rows of the same author and fic created before the row of the review.
EarlierCreated(review) ==
    {r \in Reviews : /\ blitzreviews[r].id # 0
                     /\ SameKey(r, review)
                     /\ blitzreviews[r].id < blitzreviews[review].id}
RECURSIVE TotalChapters(_)
TotalChapters(rs) ==
    IF rs = {} THEN 0
    ELSE LET r == CHOOSE x \in rs : TRUE
         IN Min(chapters[r], review_word_count(r) \div blitz.scoring.words_per_chapter)
              + TotalChapters(rs \ {r})
Floor(total) == total \div blitz.scoring.consecutive_chapter_interval
\* What a submission adds to the score besides the consecutive chapter bonus.
ScoreWithoutStreak(review) ==
    TotalChapters({review}) * blitz.scoring.chapter_points
      + last.theme_bonuses_applied * blitz.scoring.theme_bonus
      + Cardinality(blitzreviews[review].chapter_links) * blitz.scoring.long_chapter_bonus
      + (IF blitz.scoring.heat_bonus_multiplier # 0
         THEN blitzreviews[review].heat_bonus ELSE 0)
StreakCount(review) ==
    Floor(TotalChapters(EarlierCreated(review)) + TotalChapters({review}))
      - Floor(TotalChapters(EarlierCreated(review)))
StreakAllowed(review) ==
    blitz.week[review] # 2 \/ blitz.theme.consecutive_chapter_bonus_applies

\* C9: a row's heat_bonus never changes while the row exists: a resubmission
\* keeps the stored value, whatever calculate_heat_bonus() would return now,
\* and adds exactly the stored value to the recomputed score; an approval
\* leaves it alone.
C9_HeatBonusFrozen ==
    [][\A r \in Reviews :
         (blitzreviews[r].id # 0 /\ blitzreviews'[r].id = blitzreviews[r].id)
           => /\ blitzreviews'[r].heat_bonus = blitzreviews[r].heat_bonus
              /\ (last'.op = "submit" /\ last'.review = r)
                   => blitzreviews'[r].score =
                        last'.effective_chapters_reviewed * blitz.scoring.chapter_points
                        + last'.chapter_bonuses * blitz.scoring.consecutive_chapter_bonus
                        + last'.theme_bonuses_applied * blitz.scoring.theme_bonus
                        + Cardinality(blitzreviews'[r].chapter_links)
                            * blitz.scoring.long_chapter_bonus
                        + blitzreviews[r].heat_bonus]_vars

\* A resubmission of a row that holds a heat bonus, made when the heat
\* calculation would return another value.
C9_Witness ==
    /\ Submitted
    /\ ~last.created
    /\ blitzreviews[last.review].heat_bonus # 0
    /\ last.calculated # blitzreviews[last.review].heat_bonus

\* C10: on a submission the number of consecutive chapter bonuses is
\* floor((prev_total + cur) / interval) - floor(prev_total / interval) over the
\* earlier-created rows of the same author and fic (interval 3, prev 2, cur 4
\* gives 2); the score gains that many bonuses exactly when the week has no
\* theme or its theme lets the bonus apply; the number is never negative; and
\* while only first submissions in such weeks were made, the bonuses granted
\* for a fic add up to floor(total / interval).
C10_StreakBonus ==
    /\ chapter_bonuses_at(4, 2, 3) = 2
    /\ Submitted =>
         /\ StreakCount(last.review) >= 0
         /\ blitzreviews[last.review].score =
              ScoreWithoutStreak(last.review)
                + (IF StreakAllowed(last.review)
                   THEN StreakCount(last.review) * blitz.scoring.consecutive_chapter_bonus
                   ELSE 0)
    /\ ledger.plain =>
         \A f \in Fics :
            ledger.bonuses[f] =
              Floor(TotalChapters({r \in Reviews : blitzreviews[r].id # 0 /\ review_fic(r) = f}))

\* The second first-submission for a fic, in a week where the bonus applies,
\* ticks over an interval that the first one alone did not complete.
C10_Witness ==
    /\ Submitted
    /\ ledger.plain
    /\ StreakAllowed(last.review)
    /\ TotalChapters(EarlierCreated(last.review)) = 1
    /\ StreakCount(last.review) = 1
    /\ ledger.bonuses[review_fic(last.review)] = 1

\* A submission in a week without theme, linking no chapter of the long
\* chapter length, whose row holds no heat bonus.
PlainSubmission ==
    /\ Submitted
    /\ blitz.week[last.review] # 2
    /\ \A c \in last.chapter_links : word_count(c) < blitz.scoring.long_chapter_bonus_words
    /\ (blitz.scoring.heat_bonus_multiplier = 0 \/ blitzreviews[last.review].heat_bonus = 0)

\* C11 as stated: such a submission stores effective chapters * chapter_points.
C11_AsStated ==
    PlainSubmission =>
        blitzreviews[last.review].score =
            TotalChapters({last.review}) * blitz.scoring.chapter_points

\* C11: a submission with no theme, no long chapter and no heat bonus stores
\* effective chapters * chapter_points plus consecutive_chapter_bonus for
\* every interval it ticks over, hence exactly effective chapters *
\* chapter_points when it ticks over none.
C11_BaseScore ==
    PlainSubmission =>
        /\ blitzreviews[last.review].score =
              TotalChapters({last.review}) * blitz.scoring.chapter_points
                + StreakCount(last.review) * blitz.scoring.consecutive_chapter_bonus
        /\ StreakCount(last.review) = 0 =>
              blitzreviews[last.review].score =
                  TotalChapters({last.review}) * blitz.scoring.chapter_points

\* Such a submission after two earlier chapters of the fic: it ticks over no
\* interval and stores the base score.
C11_Witness ==
    /\ PlainSubmission
    /\ TotalChapters(EarlierCreated(last.review)) = 2
    /\ StreakCount(last.review) = 0
    /\ blitzreviews[last.review].score = blitz.scoring.chapter_points

\* The step is an approval; the review approved and the moderator's flag.
ApprovalStep == last = NoRequest /\ last'.op = "approve"
\* (policy(true) - policy(false)) * theme_bonus of a review, the policy of the
\* theme of its week being asked about the review alone.
PolicyDeltaIn(chs, rows, review) ==
    (claimable_theme_bonuses(get_theme(review), TRUE, chs, rows, review, {})
       - claimable_theme_bonuses(get_theme(review), FALSE, chs, rows, review, {}))
      * blitz.scoring.theme_bonus
PolicyDelta(review) == PolicyDeltaIn(chapters, blitzreviews, review)
\* What the claim says of an approval of the review with the given flag.
ToggleRule(review, flag) ==
    /\ blitzreviews'[review].approved
    /\ (flag /\ ~blitzreviews[review].theme) =>
          /\ blitzreviews'[review].score = blitzreviews[review].score + PolicyDelta(review)
          /\ blitzreviews'[review].theme
    /\ (~flag /\ blitzreviews[review].theme) =>
          /\ blitzreviews'[review].score = blitzreviews[review].score - PolicyDelta(review)
          /\ ~blitzreviews'[review].theme
    /\ (flag = blitzreviews[review].theme) =>
          /\ blitzreviews'[review].score = blitzreviews[review].score
          /\ blitzreviews'[review].theme = blitzreviews[review].theme
    /\ PolicyDeltaIn(chapters', blitzreviews', review) = PolicyDelta(review)

\* C12 as stated: every approval follows the toggle rule.
C12_AsStated ==
    [][ApprovalStep => ToggleRule(last'.review, last'.set_theme_bonus)]_vars

\* C12: an approval of a review posted in a week with a theme follows the
\* toggle rule: off to on adds delta and sets the flag, on to off subtracts
\* the same delta and clears the flag, an equal flag changes neither, approved
\* becomes true, and delta is not changed by the approval, so that on and then
\* off restores the score.  In a week without theme an approval sets approved
\* and changes neither score nor flag, whatever the moderator's flag.
C12_ThemeToggle ==
    [][ApprovalStep =>
         IF blitz.week[last'.review] = 2
         THEN ToggleRule(last'.review, last'.set_theme_bonus)
         ELSE /\ blitzreviews'[last'.review].approved
              /\ blitzreviews'[last'.review].score = blitzreviews[last'.review].score
              /\ blitzreviews'[last'.review].theme = blitzreviews[last'.review].theme]_vars

\* An approved row with the theme flag, in a themed week, approved again with
\* the flag off: the delta has been subtracted.
C12_Witness ==
    /\ last.op = "approve"
    /\ blitz.week[last.review] = 2
    /\ ~last.set_theme_bonus
    /\ last.before.theme
    /\ last.before.approved
    /\ ~blitzreviews[last.review].theme
    /\ PolicyDelta(last.review) > 0
    /\ blitzreviews[last.review].score = last.before.score - PolicyDelta(last.review)

\* C13: once a row is rejected it is gone: looking it up by its id or by its
\* review finds nothing, the approval queue does not list it, no later row
\* gets its id, and a later submission for the same author and fic sums
\* prev_chapters_reviewed over the rows that exist, the rejected one excluded.
C13_RejectDeletes ==
    /\ last.op = "reject" =>
         /\ get_by_id(blitzreviews, last.before.id) = {}
         /\ get_by_review(blitzreviews, last.review) = {}
         /\ last.review \notin get_queryset(blitzreviews)
         /\ last.before.id < next_id
    /\ \A r \in Reviews : blitzreviews[r].id < next_id
    /\ Submitted =>
         last.prev_chapters_reviewed = TotalChapters(EarlierCreated(last.review))

\* A first submission for a fic made after the row of another review of the
\* same author and fic, which had chapters, was rejected: nothing is summed.
C13_Witness ==
    /\ Submitted
    /\ last.created
    /\ \E r \in Reviews \ {last.review} :
          /\ SameKey(r, last.review)
          /\ chapters[r] > 0
          /\ blitzreviews[r].id = 0
    /\ last.prev_chapters_reviewed = 0

\* C14: right after a submission or resubmission the row is unapproved, also
\* when it was approved before, and its chapter links are exactly the chapters
\* of this submission with word_count >= long_chapter_bonus_words, whatever
\* links the row had before.
C14_ResetOnSubmit ==
    Submitted =>
        /\ ~blitzreviews[last.review].approved
        /\ blitzreviews[last.review].chapter_links =
              {c \in last.chapter_links :
                  word_count(c) >= blitz.scoring.long_chapter_bonus_words}
        /\ get_queryset(blitzreviews) \cap {last.review} # {}

\* A resubmission without chapters of a row that was approved and had a
\* chapter link: the row is unapproved and has no link.
C14_Witness ==
    /\ Submitted
    /\ ~last.created
    /\ last.before.approved
    /\ last.before.chapter_links # {}
    /\ last.chapter_links = {}
    /\ blitzreviews[last.review].chapter_links = {}
    /\ ~blitzreviews[last.review].approved

\* (policy(true) - policy(false)) * theme_bonus of a review, the policy being
\* given the history the submission uses: the earlier-created rows of the same
\* author and fic.
HistoryDelta(review) ==
    (claimable_theme_bonuses(get_theme(review), TRUE, chapters, blitzreviews,
                             review, EarlierCreated(review))
       - claimable_theme_bonuses(get_theme(review), FALSE, chapters, blitzreviews,
                                 review, EarlierCreated(review)))
      * blitz.scoring.theme_bonus

\* C15: the delta an approval applies when the moderator's flag differs from
\* the stored one is (policy(true, review, history) - policy(false, review,
\* history)) * theme_bonus over the review's actual history, so a per_fic or
\* per_author review whose history holds a theme-claiming review gains at
\* approval the multiples it would gain at submission.
C15_AsStated ==
    [][(ApprovalStep /\ blitz.week[last'.review] = 2) =>
         /\ (last'.set_theme_bonus /\ ~blitzreviews[last'.review].theme) =>
               blitzreviews'[last'.review].score
                 = blitzreviews[last'.review].score + HistoryDelta(last'.review)
         /\ (~last'.set_theme_bonus /\ blitzreviews[last'.review].theme) =>
               blitzreviews'[last'.review].score
                 = blitzreviews[last'.review].score - HistoryDelta(last'.review)]_vars

(***************************************************************************)
(* Properties of the requests of the awards forms as steps: what a         *)
(* rejected submission leaves in the tables.                               *)
(***************************************************************************)
\* The step answers a nomination batch, or a voting form, and rejects it.
BatchRejected == forms = <<>> /\ forms' # <<>> /\ ~outcome'.valid
BallotRejected == ballot = NoBallot /\ ballot' # NoBallot /\ ~ballot'.valid
\* The members and fics entered in the changed slots of the batch of the step.
Entered ==
    {forms'[k].data[f] :
        k \in {j \in 1..Len(forms') :
                 \E g \in form_fields(forms'[j].award) :
                     forms'[j].data[g] # forms'[j].instance[g]},
        f \in {"nominee", "fic"}} \ {None}

\* C16 as stated: a rejected nomination batch or voting form leaves every
\* table as it was: no Nomination, Vote, Member or Fic row is written.
C16_AsStated ==
    [][/\ BatchRejected => (nominations' = nominations /\ objects' = objects)
       /\ BallotRejected => votes' = votes]_vars

\* C16: a rejected nomination batch leaves the nominations, the rows the
\* voting form reads and the votes as they were, and so does a rejected
\* voting form; the members and fics entered in the changed slots of a
\* rejected batch are saved all the same, and nothing else is.
C16_RejectedWrites ==
    [][/\ BatchRejected =>
            /\ nominations' = nominations
            /\ nominated' = nominated
            /\ votes' = votes
            /\ objects' = objects \cup Entered
       /\ BallotRejected =>
            /\ votes' = votes
            /\ nominations' = nominations
            /\ nominated' = nominated
            /\ objects' = objects]_vars

\* The members and fics the stored nominations name.
NamedByStored ==
    UNION {{nominations[a][i][f] : i \in 1..Len(nominations[a]), f \in {"nominee", "fic"}} :
             a \in DOMAIN nominations} \ {None}

\* A voting form rejected for a vote of another award, while nominations and
\* a vote are stored and a member or fic is saved that no stored nomination
\* names.
C16_Witness ==
    /\ ballot # NoBallot
    /\ ~ballot.valid
    /\ ballot.field_errors # {}
    /\ votes # EmptyBag
    /\ nominated # {}
    /\ objects \ NamedByStored # {}

\* The nominations stored for an award after the request, and the slots of
\* the batch by what save() has to do with them.
StoredFor(award) == {nominations[award][i] : i \in 1..Len(nominations[award])}
SlotsOf(award) == {k \in FormIds : forms[k].award = award}
Emptied(k) == forms[k].pk /\ ~SlotUnchanged(k) /\ SlotEmpty(k)
Upserted(k) == ~SlotUnchanged(k) /\ ~SlotEmpty(k)
Untouched(k) == forms[k].pk /\ SlotUnchanged(k)
\* What a valid batch leaves stored: the nominations of the untouched slots
\* and those of the created or updated ones, those of the emptied slots gone.
SaveWrites ==
    \A a \in DOMAIN nominations :
        StoredFor(a) = {forms[k].instance : k \in {j \in SlotsOf(a) : Untouched(j)}}
                         \cup {forms[k].data : k \in {j \in SlotsOf(a) : Upserted(j)}}

\* C17: BaseNominationFormSet.save on a valid batch deletes the nomination of
\* an emptied slot, creates or updates that of a changed non-empty slot, writes
\* nothing for an unchanged slot, and returns exactly the nominations created
\* or updated: one entry per changed non-empty slot and no entry for a
\* deletion or an untouched slot.
C17_AsStated ==
    (InRequest /\ outcome.valid) =>
        /\ SaveWrites
        /\ Len(outcome.returned) = Cardinality({k \in FormIds : Upserted(k)})

\* The writes of C17 alone, and the list save() returns: one entry per changed
\* slot, the entry of an emptied slot being None.
C17_Writes == (InRequest /\ outcome.valid) => SaveWrites
C17_ReturnedWithNone ==
    (InRequest /\ outcome.valid) =>
        /\ Len(outcome.returned) = Cardinality({k \in FormIds : ~SlotUnchanged(k)})
        /\ Cardinality({i \in 1..Len(outcome.returned) : outcome.returned[i].is_none})
             = Cardinality({k \in FormIds : Emptied(k)})

====
